---- MODULE Spec2Model ----
(***************************************************************************)
(* A model of the doctor chat application's reviewed core:                *)
(*   - utils/context_builder.py   build_patient_context                   *)
(*   - services/ollama_service.py OllamaService.get_response              *)
(*   - services/database_service.py the read and create accessors         *)
(*                                                                         *)
(* Python text is modelled as a sequence of tokens: an f-string is the     *)
(* concatenation of its pieces, the empty string is <<>>.  A Python value  *)
(* is a record [type, text]; the outcome of a call is a record             *)
(* [kind, exc, value] that says whether the call returned or raised.       *)
(***************************************************************************)
EXTENDS Integers, Sequences, FiniteSets, TLC

VARIABLES
    clock,          \* wall clock, the value datetime.now() reads
    consultations,  \* rows of table "consultations", in insertion order
    appointments,   \* rows of table "appointments", in insertion order
    ctxCall,        \* the last build_patient_context call: its argument
    ctxResult,      \* ... and its outcome
    requestsVer,    \* installed version of the requests library
    requestLog,     \* every outbound HTTP request issued so far
    gwCalls,        \* number of get_response calls made so far
    gwCall,         \* the last get_response call: arguments and HTTP outcome
    gwResult,       \* ... and its outcome
    hcCalls,        \* number of health_check calls made so far
    hcLog,          \* every HTTP request health_check issued so far
    hcCall,         \* the last health_check call: the outcome of its request
    hcResult,       \* ... and the outcome of the call
    messages,       \* st.session_state.messages
    processing,     \* st.session_state.processing
    chatRun         \* the last script run: its inputs and how it ended

vars == <<clock, consultations, appointments, ctxCall, ctxResult,
          requestsVer, requestLog, gwCalls, gwCall, gwResult,
          hcCalls, hcLog, hcCall, hcResult, messages, processing, chatRun>>
dbVars == <<clock, consultations, appointments, ctxCall, ctxResult>>
gwVars == <<requestsVer, requestLog, gwCalls, gwCall, gwResult>>
hcVars == <<hcCalls, hcLog, hcCall, hcResult>>
chatVars == <<messages, processing, chatRun>>

----------------------------------------------------------------------------
(* Bounds *)

MaxTime == 1            \* the clock runs over 0..MaxTime
MaxConsultations == 4   \* rows in table "consultations"
MaxAppointments == 2    \* rows in table "appointments"
MaxGwCalls == 2         \* get_response calls in one behaviour
MaxRefRows == 2         \* rows of each table under SpecRefs
MaxQueryRows == 2       \* rows of each table under SpecQueries
MaxHcCalls == 2         \* health_check calls in one behaviour
MaxStoredRows == 2      \* consultations stored before the chat session starts
MinuteLen == 2          \* clock units in one minute
MinutesPerDay == 2      \* minutes in one day

DayLen == MinuteLen * MinutesPerDay

----------------------------------------------------------------------------
(* Python values and call outcomes *)

Str(t) == [type |-> "str", text |-> t]
None == [type |-> "NoneType", text |-> <<>>]
PyInt == [type |-> "int", text |-> <<>>]
PyBool(b) == [type |-> "bool", text |-> IF b THEN <<"True">> ELSE <<"False">>]

Return(v) == [kind |-> "return", exc |-> "", value |-> v]
Raise(e) == [kind |-> "raise", exc |-> e, value |-> None]
NoCall == [kind |-> "none", exc |-> "", value |-> None]

RECURSIVE Join(_)
\* "\n".join(parts)
Join(parts) ==
    IF parts = <<>> THEN <<>>
    ELSE IF Len(parts) = 1 THEN parts[1]
    ELSE parts[1] \o <<"\n">> \o Join(Tail(parts))

\* seq[:n]
Take(seq, n) == SubSeq(seq, 1, IF Len(seq) < n THEN Len(seq) ELSE n)

\* str.capitalize() on the category values
Capitalize(t) ==
    CASE t = <<"chronic">> -> <<"Chronic">>
      [] t = <<"acute">> -> <<"Acute">>
      [] OTHER -> t

\* datetime.strftime('%Y-%m-%d'): the day of the instant
StrfDate(t) == <<"day", ToString(t \div DayLen)>>

\* datetime.strftime('%Y-%m-%d %H:%M'): the day and the minute of the instant
StrfDateTime(t) ==
    <<"day", ToString(t \div DayLen), " ", "min", ToString((t % DayLen) \div MinuteLen)>>

----------------------------------------------------------------------------
(* database_service.py: the tables *)

\* the identifiers of the stored patients and doctors
PatientIds == {1, 2}
DoctorIds == {1}
\* identifiers a caller may pass: the stored ones and one that is not stored
PatientRefs == PatientIds \cup {3}
DoctorRefs == DoctorIds \cup {2}
Times == 0..MaxTime
Statuses == {"scheduled", "completed", "canceled"}

\* A row of table "patients": the columns of class Patient
PatientRow(pid) ==
    [id |-> pid,
     name |-> <<"patient", ToString(pid)>>,
     date_of_birth |-> <<"dob", ToString(pid)>>,
     contact_information |-> <<"contact", ToString(pid)>>,
     medical_record_number |-> <<"MRN", ToString(pid)>>]

\* A row of table "doctors"
DoctorRow(did) == [id |-> did, name |-> <<"Dr", ToString(did)>>]

\* getattr(obj, a): an ORM object has its columns as attributes and no other
HasAttr(obj, a) == a \in DOMAIN obj

\* session.query(Patient).filter(Patient.id == patient_id).first():
\* an Optional, here a set of at most one row
get_patient(pid) == IF pid \in PatientIds THEN {PatientRow(pid)} ELSE {}

get_doctor_name(did) ==
    IF did \in DoctorIds THEN DoctorRow(did).name ELSE <<"Unknown Doctor">>

RECURSIVE Perms(_)
\* every sequence that lists the rows of S once
Perms(S) ==
    IF S = {} THEN {<<>>}
    ELSE UNION {{<<r>> \o p : p \in Perms(S \ {r})} : r \in S}

Range(seq) == {seq[i] : i \in 1..Len(seq)}

\* filter(patient_id == pid).order_by(Consultation.date.desc()).all(): the
\* patient's rows, latest first; the order of rows of equal date is the
\* database's choice, so this is the set of result lists it may return
get_patient_consultations(pid) ==
    {s \in Perms({c \in Range(consultations) : c.patient_id = pid}) :
        \A i \in 1..(Len(s) - 1) : s[i].date >= s[i + 1].date}

\* the appointment query without its order_by: the rows in insertion order
get_patient_appointments_unordered(pid) ==
    {s \in Perms({a \in Range(appointments) : a.patient_id = pid}) :
        \A i \in 1..(Len(s) - 1) : s[i].id < s[i + 1].id}

\* filter(patient_id == pid).order_by(Appointment.date_time.asc()).all()
get_patient_appointments(pid) ==
    {s \in Perms({a \in Range(appointments) : a.patient_id = pid}) :
        \A i \in 1..(Len(s) - 1) : s[i].date_time <= s[i + 1].date_time}

----------------------------------------------------------------------------
(* utils/context_builder.py *)

\* the attributes of patient that lines 31-35 read, in the order they are read
PatientAttrsRead ==
    <<"name", "date_of_birth", "medical_record_number", "contact_information",
      "category">>

\* consultations[:3]
RecentLimit == 3

\* lines 29-37: the identity block
IdentityParts(patient) ==
    << <<"PATIENT INFORMATION:">>,
       <<"Name: ">> \o patient.name,
       <<"Date of Birth: ">> \o patient.date_of_birth,
       <<"Medical Record Number: ">> \o patient.medical_record_number,
       <<"Contact: ">> \o patient.contact_information,
       <<"Category: ">> \o Capitalize(patient.category),
       <<"\n">> >>

\* lines 44-52: the five parts of one consultation
ConsultationEntry(c) ==
    << <<"Consultation on ">> \o StrfDate(c.date) \o <<" with ">>
           \o get_doctor_name(c.doctor_id) \o <<":">>,
       <<"Diagnosis: ">> \o c.diagnosis,
       <<"Notes: ">> \o c.notes,
       <<"Treatment: ">> \o c.treatment_plan,
       <<"\n">> >>

RECURSIVE ConsultationEntries(_)
ConsultationEntries(cs) ==
    IF cs = <<>> THEN <<>>
    ELSE ConsultationEntry(cs[1]) \o ConsultationEntries(Tail(cs))

\* lines 40-54: the consultation section
ConsultationParts(cs) ==
    << <<"CONSULTATION HISTORY:">> >> \o
    (IF cs # <<>> THEN ConsultationEntries(Take(cs, RecentLimit))
     ELSE << <<"No previous consultations found.">> >>)

RECURSIVE UpcomingFrom(_, _, _)
\* lines 58-61: the list comprehension; datetime.now() is read once for each
\* appointment, nows[i] is the value read for aps[i]
UpcomingFrom(aps, nows, i) ==
    IF i > Len(aps) THEN <<>>
    ELSE (IF aps[i].date_time > nows[i] /\ aps[i].status = "scheduled"
          THEN <<aps[i]>> ELSE <<>>) \o UpcomingFrom(aps, nows, i + 1)

\* lines 66-69: the line of one upcoming appointment
AppointmentEntry(a) ==
    StrfDateTime(a.date_time) \o <<" with ">> \o get_doctor_name(a.doctor_id)
        \o <<": ">> \o a.purpose

\* lines 57-71: the upcoming section
UpcomingParts(aps, nows) ==
    LET upcoming_appointments == UpcomingFrom(aps, nows, 1) IN
    << <<"UPCOMING APPOINTMENTS:">> >> \o
    (IF upcoming_appointments # <<>>
     THEN [i \in 1..Len(upcoming_appointments) |->
              AppointmentEntry(upcoming_appointments[i])]
     ELSE << <<"No upcoming appointments.">> >>)

\* TRUE when the call gets as far as building context_parts (line 29)
PatientResolves(pid) == get_patient(pid) # {}

\* TRUE when the call gets past context_parts, to the clock reads of line 60
ReachesFilter(pid) ==
    /\ PatientResolves(pid)
    /\ \A i \in 1..Len(PatientAttrsRead) :
          HasAttr(CHOOSE p \in get_patient(pid) : TRUE, PatientAttrsRead[i])

\* lines 29-73: the call once the patient resolved
RenderPatient(pid, cs, aps, nows) ==
    LET patient == CHOOSE p \in get_patient(pid) : TRUE IN
    IF \E i \in 1..Len(PatientAttrsRead) : ~HasAttr(patient, PatientAttrsRead[i])
    THEN Raise("AttributeError")
    ELSE Return(Str(Join(IdentityParts(patient) \o ConsultationParts(cs)
                             \o UpcomingParts(aps, nows))))

\* one get_doctor_name call for each element of seq
DoctorLookups(seq) == [i \in 1..Len(seq) |-> "get_doctor_name"]

\* a build_patient_context that resolves the doctor of every consultation of
\* the list right after the queries
CollaboratorCalls_eager(pid, cs, aps, nows) ==
    <<"get_patient">> \o
    (IF ~PatientResolves(pid) THEN <<>>
     ELSE <<"get_patient_consultations", "get_patient_appointments">>
              \o DoctorLookups(cs))

\* the db_service calls one call of build_patient_context issues, in order:
\* lines 21, 25, 26, then line 44 for each consultation of the slice and
\* line 65 for each upcoming appointment
CollaboratorCalls(pid, cs, aps, nows) ==
    <<"get_patient">> \o
    (IF ~PatientResolves(pid) THEN <<>>
     ELSE <<"get_patient_consultations", "get_patient_appointments">> \o
          (IF ~ReachesFilter(pid) THEN <<>>
           ELSE DoctorLookups(Take(cs, RecentLimit))
                    \o DoctorLookups(UpcomingFrom(aps, nows, 1))))

\* build_patient_context without the guard of lines 22-23: patient.name is
\* then read from None
build_patient_context_unguarded(pid, cs, aps, nows) ==
    IF ~PatientResolves(pid)
    THEN Raise("AttributeError")
    ELSE RenderPatient(pid, cs, aps, nows)

\* build_patient_context(patient_id, db_service), with cs and aps the lists the
\* two queries return and nows the values datetime.now() returns
build_patient_context(pid, cs, aps, nows) ==
    IF ~PatientResolves(pid)
    THEN Return(Str(<<"No patient data available.">>))
    ELSE RenderPatient(pid, cs, aps, nows)

----------------------------------------------------------------------------
(* The data store and the context builder as a state machine *)

\* ctxCall and ctxResult record the last build_patient_context call made on
\* the present content of the tables: a create operation clears the record
NoCtxCall == [patient_id |-> 0, at |-> 0, nows |-> <<>>, calls |-> <<>>]

\* The tables start empty and grow by the two create operations; the stored
\* patients and doctors are fixed (no operation creates one).
InitDb ==
    /\ clock = 0
    /\ consultations = <<>>
    /\ appointments = <<>>
    /\ ctxCall = NoCtxCall
    /\ ctxResult = NoCall

\* time passes
Tick ==
    /\ clock < MaxTime
    /\ clock' = clock + 1
    /\ UNCHANGED <<consultations, appointments, ctxCall, ctxResult>>

\* DatabaseService.create_consultation: the row is dated datetime.now()
create_consultation(pid, did, notes, diagnosis, treatment_plan) ==
    /\ Len(consultations) < MaxConsultations
    /\ consultations' = Append(consultations,
           [id |-> Len(consultations) + 1, patient_id |-> pid, doctor_id |-> did,
            date |-> clock, notes |-> notes, diagnosis |-> diagnosis,
            treatment_plan |-> treatment_plan])
    /\ ctxCall' = NoCtxCall
    /\ ctxResult' = NoCall
    /\ UNCHANGED <<clock, appointments>>

\* DatabaseService.create_appointment
create_appointment(pid, did, date_time, purpose, status) ==
    /\ Len(appointments) < MaxAppointments
    /\ appointments' = Append(appointments,
           [id |-> Len(appointments) + 1, patient_id |-> pid, doctor_id |-> did,
            date_time |-> date_time, status |-> status, purpose |-> purpose])
    /\ ctxCall' = NoCtxCall
    /\ ctxResult' = NoCall
    /\ UNCHANGED <<clock, consultations>>

\* the values n successive reads of datetime.now() may return from now on
NowReads(n) ==
    {s \in [1..n -> clock..MaxTime] :
        \A i \in 1..(n - 1) : s[i] <= s[i + 1]}

\* One call of build_patient_context.  The two list queries are issued only
\* when the patient resolves (line 22 returns before them), the clock is read
\* only when line 58 is reached.
BuildPatientContext(pid) ==
    \E cs \in (IF PatientResolves(pid) THEN get_patient_consultations(pid) ELSE {<<>>}),
       aps \in (IF PatientResolves(pid) THEN get_patient_appointments(pid) ELSE {<<>>}) :
      \E nows \in (IF ReachesFilter(pid) THEN NowReads(Len(aps)) ELSE {<<>>}) :
        /\ ctxCall' = [patient_id |-> pid, at |-> clock, nows |-> nows,
                       calls |-> CollaboratorCalls(pid, cs, aps, nows)]
        /\ ctxResult' = build_patient_context(pid, cs, aps, nows)
        /\ clock' = IF nows # <<>> THEN nows[Len(nows)] ELSE clock
        /\ UNCHANGED <<consultations, appointments>>

CreateConsultation ==
    \E pid \in PatientIds, did \in DoctorIds :
        create_consultation(pid, did, <<"notes">>, <<"dx">>, <<"plan">>)

CreateAppointment ==
    \E pid \in PatientIds, did \in DoctorIds, t \in Times, st \in Statuses :
        create_appointment(pid, did, t, <<"purpose">>, st)

CallBuildPatientContext == \E pid \in PatientRefs : BuildPatientContext(pid)

\* create calls as the Schedule tab makes them, app.py lines 269-276: the
\* appointment is created with status "scheduled"
CreateConsultationFew ==
    \E pid \in PatientIds, did \in DoctorIds :
        /\ Len(consultations) < MaxQueryRows
        /\ create_consultation(pid, did, <<"notes">>, <<"dx">>, <<"plan">>)

CreateAppointmentScheduled ==
    \E pid \in PatientIds, did \in DoctorIds, t \in Times :
        /\ Len(appointments) < MaxQueryRows
        /\ create_appointment(pid, did, t, <<"purpose">>, "scheduled")

\* create calls whose doctor_id may name no stored doctor: the tables are
\* SQLite tables and SQLite does not enforce the ForeignKey of lines 39, 40, 54, 55
CreateConsultationRef ==
    \E pid \in PatientIds, did \in DoctorRefs :
        /\ Len(consultations) < MaxRefRows
        /\ create_consultation(pid, did, <<"notes">>, <<"dx">>, <<"plan">>)

CreateAppointmentRef ==
    \E pid \in PatientIds, did \in DoctorRefs, t \in Times, st \in Statuses :
        /\ Len(appointments) < MaxRefRows
        /\ create_appointment(pid, did, t, <<"purpose">>, st)

----------------------------------------------------------------------------
(* services/ollama_service.py *)

\* OllamaService(base_url, model): the configuration fixed at construction
ConfiguredModel == "phi"
GenerateEndpoint == "http://localhost:11434"

Prompts == {<<"hello">>, <<"What is the diagnosis?">>}
Contexts == {None, Str(<<>>), Str(<<"PATIENT INFO...">>)}

\* bool(v) for None and for text
Truthy(v) == v.type = "str" /\ v.text # <<>>

\* the prompt assembled under the test "context is not None"
CompletePrompt_is_not_None(prompt, context) ==
    IF context.type = "str"
    THEN <<"Context:\n">> \o context.text \o <<"\n\nQuestion: ">> \o prompt
    ELSE prompt

\* lines 36-39
CompletePrompt(prompt, context) ==
    IF Truthy(context)
    THEN <<"Context:\n">> \o context.text \o <<"\n\nQuestion: ">> \o prompt
    ELSE prompt

\* lines 41-50
Payload(prompt, context) ==
    [model |-> ConfiguredModel,
     prompt |-> CompletePrompt(prompt, context),
     stream |-> FALSE,
     options |-> [temperature |-> "0.7", top_p |-> "0.9", max_tokens |-> 1024]]

\* What the endpoint may do with one request: the connection fails, or a
\* response arrives with a status and a body.
HttpStatuses == {101, 200, 304, 404, 503}
JsonValues == {Str(<<"generated text">>), Str(<<"Error: ", "said the model">>), None, PyInt}
HttpBodies ==
    {[json |-> "invalid", has_response |-> FALSE, response |-> None]}
    \cup {[json |-> k, has_response |-> FALSE, response |-> None] :
             k \in {"object", "array", "string", "null"}}
    \cup {[json |-> "object", has_response |-> TRUE, response |-> v] : v \in JsonValues}
HttpOutcomes ==
    {[transport |-> "failed", status |-> 0,
      body |-> [json |-> "invalid", has_response |-> FALSE, response |-> None]]}
    \cup {[transport |-> "ok", status |-> st, body |-> b] :
             st \in HttpStatuses, b \in HttpBodies}

RequestsVersions == {"before 2.27", "2.27 or later"}

\* the classes of an exception (its own and its bases the handlers look at)
ExcClasses(exc, ver) ==
    CASE exc = "ConnectionError" -> {"ConnectionError", "RequestException"}
      [] exc = "HTTPError" -> {"HTTPError", "RequestException"}
      [] exc = "JSONDecodeError" ->
            IF ver = "2.27 or later"
            THEN {"requests.JSONDecodeError", "RequestException", "json.JSONDecodeError"}
            ELSE {"json.JSONDecodeError"}
      [] OTHER -> {exc}

\* str(e)
ExcText(exc, http) ==
    CASE exc = "ConnectionError" -> <<"Connection refused">>
      [] exc = "HTTPError" -> <<ToString(http.status), " Error for url">>
      [] exc = "JSONDecodeError" -> <<"Expecting value">>
      [] OTHER -> <<exc>>

\* a status check that raises for the 5xx statuses alone
RaiseForStatusRaises_5xx(status) == 500 <= status /\ status < 600

\* Response.raise_for_status(): raises for the 4xx and 5xx statuses
RaiseForStatusRaises(status) == 400 <= status /\ status < 600

\* lines 53-57, the body of the try: the exception it raises, "" when none
TryRaises(http) ==
    IF http.transport = "failed" THEN "ConnectionError"
    ELSE IF RaiseForStatusRaises(http.status) THEN "HTTPError"
    ELSE IF http.body.json = "invalid" THEN "JSONDecodeError"
    ELSE IF http.body.json # "object" THEN "AttributeError"
    ELSE ""

\* result.get("response"), without the default
ResultGet_no_default(body) ==
    IF body.has_response THEN body.response ELSE None

\* line 57: result.get("response", "No response received from model.")
ResultGet(body) ==
    IF body.has_response THEN body.response
    ELSE Str(<<"No response received from model.">>)

\* lines 59-62
ConnectionErrorHandler(exc, http) ==
    Return(Str(<<"Error: ">> \o <<"Error connecting to Ollama API: ">>
                   \o ExcText(exc, http)))

\* lines 64-67
JSONDecodeErrorHandler ==
    Return(Str(<<"Error: ">> \o <<"Invalid JSON response from Ollama API">>))

\* lines 52-67: the outcome of get_response given what the request did
get_response(prompt, context, http, ver) ==
    LET exc == TryRaises(http) IN
    IF exc = "" THEN Return(ResultGet(http.body))
    ELSE IF "RequestException" \in ExcClasses(exc, ver)
         THEN ConnectionErrorHandler(exc, http)
    ELSE IF "json.JSONDecodeError" \in ExcClasses(exc, ver)
         THEN JSONDecodeErrorHandler
    ELSE Raise(exc)

PostRequest(prompt, context) ==
    [method |-> "POST", url |-> GenerateEndpoint, json |-> Payload(prompt, context)]

\* a get_response that posts again after a transport failure
RequestsOf_retry(prompt, context, http) ==
    IF http.transport = "failed"
    THEN <<PostRequest(prompt, context), PostRequest(prompt, context)>>
    ELSE <<PostRequest(prompt, context)>>

\* line 54: the requests.post calls one call of get_response makes, whatever
\* the outcome http of the request
RequestsOf(prompt, context, http) == <<PostRequest(prompt, context)>>

InitGw ==
    /\ requestsVer \in RequestsVersions
    /\ requestLog = <<>>
    /\ gwCalls = 0
    /\ gwCall = [prompt |-> <<>>, context |-> None,
                 http |-> CHOOSE h \in HttpOutcomes : h.transport = "failed"]
    /\ gwResult = NoCall

\* One call of get_response
GetResponse(prompt, context, http) ==
    /\ gwCalls < MaxGwCalls
    /\ gwCalls' = gwCalls + 1
    /\ requestLog' = requestLog \o RequestsOf(prompt, context, http)
    /\ gwCall' = [prompt |-> prompt, context |-> context, http |-> http]
    /\ gwResult' = get_response(prompt, context, http, requestsVer)
    /\ UNCHANGED requestsVer

\* the responses the health endpoint may give, with the other 2xx statuses
HealthStatuses == HttpStatuses \cup {201, 204}
HealthOutcomes ==
    {h \in HttpOutcomes : h.transport = "failed"}
    \cup {[transport |-> "ok", status |-> st, body |-> b] :
             st \in HealthStatuses, b \in HttpBodies}

\* line 76: f"{self.base_url}/api/health"
HealthUrl == <<GenerateEndpoint, "/api/health">>

GetRequest == [method |-> "GET", url |-> HealthUrl]

\* a health_check that returns response.ok
health_check_ok(http, ver) ==
    IF http.transport = "failed"
    THEN Return(PyBool(FALSE))
    ELSE Return(PyBool(http.status < 400))

\* OllamaService.health_check: the try body of lines 76-77 and the handler
\* of lines 78-79 for the exception a failed requests.get raises
health_check(http, ver) ==
    IF http.transport = "failed"
    THEN IF "RequestException" \in ExcClasses("ConnectionError", ver)
         THEN Return(PyBool(FALSE))
         ELSE Raise("ConnectionError")
    ELSE Return(PyBool(http.status = 200))

InitHc ==
    /\ hcCalls = 0
    /\ hcLog = <<>>
    /\ hcCall = CHOOSE h \in HealthOutcomes : h.transport = "failed"
    /\ hcResult = NoCall

\* One call of health_check
HealthCheck(http) ==
    /\ hcCalls < MaxHcCalls
    /\ hcCalls' = hcCalls + 1
    /\ hcLog' = Append(hcLog, GetRequest)
    /\ hcCall' = http
    /\ hcResult' = health_check(http, requestsVer)

CallHealthCheck == \E http \in HealthOutcomes : HealthCheck(http)

CallGetResponse ==
    \E prompt \in Prompts, context \in Contexts, http \in HttpOutcomes :
        GetResponse(prompt, context, http)

----------------------------------------------------------------------------
(* app.py: the chat tab *)

\* DatabaseService.get_patients_for_doctor: the patients of the rows that
\* name the doctor
get_patients_for_doctor(did) ==
    {c.patient_id : c \in {x \in Range(consultations) : x.doctor_id = did}}
    \cup {a.patient_id : a \in {x \in Range(appointments) : x.doctor_id = did}}

\* lines 61-65: the doctor the sidebar selects
SelectedDoctor == CHOOSE did \in DoctorIds : TRUE

\* lines 88-95: the values st.sidebar.selectbox may return for patient_id,
\* 0 standing for the None of an empty option list
NoPatient == 0
PatientChoices ==
    IF get_patients_for_doctor(SelectedDoctor) = {} THEN {NoPatient}
    ELSE get_patients_for_doctor(SelectedDoctor)

\* line 124: st.chat_input returns None or the text just submitted
ChatInputs == {None} \cup {Str(p) : p \in Prompts}

Msg(role, content) == [role |-> role, content |-> content]

\* a chat tab that appends every prompt it receives
SubmitGuard_no_flag(prompt, flag) == Truthy(prompt)

\* line 131: if prompt and not st.session_state.processing
SubmitGuard(prompt, flag) == Truthy(prompt) /\ ~flag

\* line 139: processing, and the last message is a user message
ReplyGuard(msgs, flag) ==
    flag /\ Len(msgs) > 0 /\ msgs[Len(msgs)].role = "user"

NoRun == [patient_id |-> NoPatient, prompt |-> None, pending |-> FALSE,
          before |-> <<>>, asked_for |-> NoPatient, outcome |-> "none",
          reply |-> NoCall]

\* what a script run records: its inputs, the session state it found, the
\* patient selected when the pending question was appended
RunRecord(pid, prompt, outcome, reply) ==
    [patient_id |-> pid, prompt |-> prompt, pending |-> processing,
     before |-> messages,
     asked_for |-> IF outcome = "submitted" THEN pid ELSE chatRun.asked_for,
     outcome |-> outcome, reply |-> reply]

InitChat ==
    /\ messages = <<>>
    /\ processing = FALSE
    /\ chatRun = NoRun

\* the run ends without touching the session state
RunEnds(pid, prompt, outcome) ==
    /\ chatRun' = RunRecord(pid, prompt, outcome, NoCall)
    /\ UNCHANGED <<messages, processing>>

\* lines 139-162: the reply to the pending user message
GenerateReply(pid, prompt) ==
    /\ BuildPatientContext(pid)
    /\ IF ctxResult'.kind = "raise"
       THEN /\ RunEnds(pid, prompt, "raised")
            /\ UNCHANGED gwVars
       ELSE \E http \in HttpOutcomes :
              /\ GetResponse(messages[Len(messages)].content, ctxResult'.value, http)
              /\ IF gwResult'.kind = "raise"
                 THEN RunEnds(pid, prompt, "raised")
                 ELSE /\ messages' = Append(messages,
                                            Msg("assistant", gwResult'.value.text))
                      /\ processing' = FALSE
                      /\ chatRun' = RunRecord(pid, prompt, "replied", gwResult')

\* One script run as far as the chat tab, lines 101-164, with the selected
\* patient and the chat input of this run.  st.rerun() at lines 136 and 162
\* ends the run; an exception ends it too and leaves the session state as
\* it was.
ScriptRun(pid, prompt) ==
    IF pid = NoPatient
    THEN RunEnds(pid, prompt, "no patient") /\ UNCHANGED <<dbVars, gwVars>>
    ELSE IF get_patient(pid) = {}
    THEN \* line 107: patient.name of None
         RunEnds(pid, prompt, "raised") /\ UNCHANGED <<dbVars, gwVars>>
    ELSE IF SubmitGuard(prompt, processing)
    THEN /\ messages' = Append(messages, Msg("user", prompt.text))
         /\ processing' = TRUE
         /\ chatRun' = RunRecord(pid, prompt, "submitted", NoCall)
         /\ UNCHANGED <<dbVars, gwVars>>
    ELSE IF ReplyGuard(messages, processing)
    THEN GenerateReply(pid, prompt)
    ELSE RunEnds(pid, prompt, "idle") /\ UNCHANGED <<dbVars, gwVars>>

CallScriptRun ==
    \E pid \in PatientChoices, prompt \in ChatInputs : ScriptRun(pid, prompt)

\* the stores a session may find: the database file outlives the sessions
StoredRows ==
    {[id |-> 0, patient_id |-> pid, doctor_id |-> did, date |-> 0,
      notes |-> <<"notes">>, diagnosis |-> <<"dx">>, treatment_plan |-> <<"plan">>] :
        pid \in PatientRefs, did \in DoctorRefs}
ChatStores ==
    UNION {{[i \in 1..n |-> [f[i] EXCEPT !.id = i]] : f \in [1..n -> StoredRows]} :
              n \in 0..MaxStoredRows}

InitChatStore ==
    /\ clock = 0
    /\ consultations \in ChatStores
    /\ appointments = <<>>
    /\ ctxCall = NoCtxCall
    /\ ctxResult = NoCall
    /\ InitGw
    /\ requestsVer = "2.27 or later"
    /\ InitHc
    /\ InitChat

----------------------------------------------------------------------------
(* Specifications *)

Init == InitDb /\ InitGw /\ InitHc /\ InitChat

\* the data store and the context builder; the gateway is not called
InitStore == Init /\ requestsVer = "2.27 or later"

Next ==
    \/ Tick /\ UNCHANGED <<gwVars, hcVars, chatVars>>
    \/ CreateConsultation /\ UNCHANGED <<gwVars, hcVars, chatVars>>
    \/ CreateAppointment /\ UNCHANGED <<gwVars, hcVars, chatVars>>
    \/ CallBuildPatientContext /\ UNCHANGED <<gwVars, hcVars, chatVars>>

Spec == InitStore /\ [][Next]_vars

\* the gateway
NextQueries ==
    \/ Tick /\ UNCHANGED <<gwVars, hcVars, chatVars>>
    \/ CreateConsultationFew /\ UNCHANGED <<gwVars, hcVars, chatVars>>
    \/ CreateAppointmentScheduled /\ UNCHANGED <<gwVars, hcVars, chatVars>>
    \/ CallBuildPatientContext /\ UNCHANGED <<gwVars, hcVars, chatVars>>

\* the store with few rows, written as the Schedule tab writes it
SpecQueries == InitStore /\ [][NextQueries]_vars

NextRefs ==
    \/ Tick /\ UNCHANGED <<gwVars, hcVars, chatVars>>
    \/ CreateConsultationRef /\ UNCHANGED <<gwVars, hcVars, chatVars>>
    \/ CreateAppointmentRef /\ UNCHANGED <<gwVars, hcVars, chatVars>>
    \/ CallBuildPatientContext /\ UNCHANGED <<gwVars, hcVars, chatVars>>

\* the store with rows that may reference a missing doctor
SpecRefs == InitStore /\ [][NextRefs]_vars

NextChat == CallScriptRun /\ UNCHANGED hcVars

\* one browser session on the chat tab
SpecChat == InitChatStore /\ [][NextChat]_vars

NextHc == CallHealthCheck /\ UNCHANGED <<dbVars, gwVars, chatVars>>

\* the gateway's health probe, called any number of times
SpecHc == Init /\ [][NextHc]_vars

NextGw == CallGetResponse /\ UNCHANGED <<dbVars, hcVars, chatVars>>

SpecGw == Init /\ [][NextGw]_vars

----------------------------------------------------------------------------
(* Claims about build_patient_context, checked under Spec *)

IsInfix(sub, t) ==
    \E i \in 0..(Len(t) - Len(sub)) : SubSeq(t, i + 1, i + Len(sub)) = sub

IsSuffix(sub, t) ==
    Len(sub) <= Len(t) /\ SubSeq(t, Len(t) - Len(sub) + 1, Len(t)) = sub

CtxCalled == ctxResult.kind # "none"
CtxReturnedText == ctxResult.kind = "return" /\ ctxResult.value.type = "str"

\* C1: build_patient_context is total: whatever the patient identifier and
\* the content of the store, the call returns a text and raises nothing.
C1_BuildContextTotal == CtxCalled => CtxReturnedText

\* C3: when get_patient finds no patient for the identifier, the call returns
\* the fixed text "No patient data available." and does not fail.
C3_AbsentPatientSentinel ==
    (CtxCalled /\ get_patient(ctxCall.patient_id) = {})
        => ctxResult = Return(Str(<<"No patient data available.">>))

\* a call for an absent patient, made on a store that holds rows
C3_Witness ==
    /\ CtxCalled
    /\ ctxCall.patient_id \notin PatientIds
    /\ consultations # <<>>
    /\ appointments # <<>>

\* what C4 says the consultation section is for the list cs
C4_Section(cs) ==
    LET n == Len(cs)
        k == IF n < 3 THEN n ELSE 3
    IN  << <<"CONSULTATION HISTORY:">> >> \o
        (IF n = 0 THEN << <<"No previous consultations found.">> >>
         ELSE ConsultationEntries(SubSeq(cs, 1, k)))

\* C4: for a resolving patient with n consultations the consultation section
\* renders exactly the first min(3, n) entries of the list, in list order, and
\* the line "No previous consultations found." when n = 0.
C4_RecentThree ==
    (CtxCalled /\ ctxCall.patient_id \in PatientIds) =>
        /\ CtxReturnedText
        /\ \E cs \in get_patient_consultations(ctxCall.patient_id) :
              IsInfix(Join(C4_Section(cs) \o << <<"UPCOMING APPOINTMENTS:">> >>),
                      ctxResult.value.text)

RECURSIVE C5_Qualifying(_, _)
\* the appointments C5 calls upcoming at instant now, in the order of aps
C5_Qualifying(aps, now) ==
    IF aps = <<>> THEN <<>>
    ELSE (IF aps[1].status = "scheduled" /\ aps[1].date_time > now
          THEN <<AppointmentEntry(aps[1])>> ELSE <<>>)
         \o C5_Qualifying(Tail(aps), now)

C5_Section(aps, now) ==
    << <<"UPCOMING APPOINTMENTS:">> >> \o
    (IF C5_Qualifying(aps, now) = <<>> THEN << <<"No upcoming appointments.">> >>
     ELSE C5_Qualifying(aps, now))

\* C5: for a resolving patient the upcoming section renders exactly the
\* appointments with status "scheduled" and a timestamp strictly after the
\* evaluation instant, in input order, and "No upcoming appointments." when
\* none qualifies.
C5_UpcomingFilter ==
    (CtxCalled /\ ctxCall.patient_id \in PatientIds) =>
        /\ CtxReturnedText
        /\ \E aps \in get_patient_appointments(ctxCall.patient_id) :
              IsSuffix(Join(C5_Section(aps, ctxCall.at)), ctxResult.value.text)

\* the upcoming section as C11 has it: the filter of C5 applied at instant t
C11_SectionAt(aps, t) == C5_Section(aps, t)

\* C11: within one call the evaluation instant is captured once: every
\* appointment is compared against the same instant, so the upcoming section
\* is the filter applied at one instant between the start and the end of the
\* call, also when the clock advances during the call.
C11_NowCapturedOnce ==
    (CtxCalled /\ ctxCall.patient_id \in PatientIds) =>
        /\ CtxReturnedText
        /\ \A i, j \in 1..Len(ctxCall.nows) : ctxCall.nows[i] = ctxCall.nows[j]
        /\ \E t \in ctxCall.at..clock :
              \E aps \in get_patient_appointments(ctxCall.patient_id) :
                 IsSuffix(Join(C11_SectionAt(aps, t)), ctxResult.value.text)

Count(seq, x) == Cardinality({i \in 1..Len(seq) : seq[i] = x})

\* the number of consultations and upcoming appointments the returned text
\* renders: none when the call returned no rendering
C12_Rendered ==
    IF ctxResult.kind = "return"
    THEN Count(ctxResult.value.text, "Consultation on ")
             + Count(ctxResult.value.text, ": ")
    ELSE 0

C12_Lookups ==
    (CtxCalled /\ ctxCall.patient_id \in PatientIds) =>
        /\ Count(ctxCall.calls, "get_patient") = 1
        /\ Count(ctxCall.calls, "get_patient_consultations") = 1
        /\ Count(ctxCall.calls, "get_patient_appointments") = 1
        /\ Count(ctxCall.calls, "get_doctor_name") = C12_Rendered
        /\ \A i \in 1..Len(ctxCall.calls) :
              ctxCall.calls[i] \notin {"create_appointment", "create_consultation"}

C12_NoWrite ==
    (ctxResult' # NoCall /\ <<ctxCall, ctxResult>>' # <<ctxCall, ctxResult>>)
        => UNCHANGED <<consultations, appointments>>

C13_Deterministic ==
    CtxCalled =>
        /\ CtxReturnedText
        /\ \A cs \in (IF PatientResolves(ctxCall.patient_id)
                      THEN get_patient_consultations(ctxCall.patient_id) ELSE {<<>>}),
              aps \in (IF PatientResolves(ctxCall.patient_id)
                       THEN get_patient_appointments(ctxCall.patient_id) ELSE {<<>>}) :
              build_patient_context(ctxCall.patient_id, cs, aps,
                                    [i \in 1..Len(aps) |-> ctxCall.at]) = ctxResult

IsPermutationOf(s, S) == Len(s) = Cardinality(S) /\ Range(s) = S

\* C15: after any sequence of create calls, get_patient_consultations(p)
\* returns exactly the stored consultations of patient p in non-increasing
\* date order and get_patient_appointments(p) exactly the stored appointments
\* of p in non-decreasing date_time order; a created appointment is in its
\* patient's list and in no other patient's list.
C15_QueriesFilteredAndOrdered ==
    \A p \in PatientRefs :
        /\ get_patient_consultations(p) # {}
        /\ get_patient_appointments(p) # {}
        /\ \A s \in get_patient_consultations(p) :
              /\ IsPermutationOf(s, {consultations[i] : i \in
                                       {j \in 1..Len(consultations) :
                                           consultations[j].patient_id = p}})
              /\ \A i, j \in 1..Len(s) : i < j => s[i].date >= s[j].date
        /\ \A s \in get_patient_appointments(p) :
              /\ IsPermutationOf(s, {appointments[i] : i \in
                                       {j \in 1..Len(appointments) :
                                           appointments[j].patient_id = p}})
              /\ \A i, j \in 1..Len(s) : i < j => s[i].date_time <= s[j].date_time
              /\ \A k \in 1..Len(appointments) :
                    (appointments[k] \in Range(s)) <=> (appointments[k].patient_id = p)

\* a later appointment was created before an earlier one of the same patient,
\* and both patients have consultations of different dates
C15_Witness ==
    /\ Len(appointments) = 2
    /\ appointments[1].patient_id = appointments[2].patient_id
    /\ appointments[1].date_time > appointments[2].date_time
    /\ \E i, j \in 1..Len(consultations) :
          /\ consultations[i].patient_id # consultations[j].patient_id
          /\ consultations[i].date # consultations[j].date

----------------------------------------------------------------------------
(* Claims about rows that reference a missing doctor, checked under SpecRefs *)

\* the rows of patient pid that build_patient_context is to render and whose
\* doctor_id names no stored doctor
C20_DanglingRows(pid) ==
    {c \in Range(consultations) : c.patient_id = pid /\ c.doctor_id \notin DoctorIds}
    \cup {a \in Range(appointments) :
             /\ a.patient_id = pid
             /\ a.doctor_id \notin DoctorIds
             /\ a.status = "scheduled"
             /\ a.date_time > clock}

\* C20: get_doctor_name returns the stored name, or "Unknown Doctor" for an
\* identifier with no stored doctor; so a consultation or an appointment that
\* references a missing doctor is still rendered by build_patient_context,
\* with "Unknown Doctor", and the call does not fault.
C20_UnknownDoctorRendered ==
    /\ \A did \in DoctorRefs \ DoctorIds : get_doctor_name(did) = <<"Unknown Doctor">>
    /\ \A did \in DoctorIds : get_doctor_name(did) = DoctorRow(did).name
    /\ (/\ CtxCalled
        /\ ctxCall.patient_id \in PatientIds
        /\ C20_DanglingRows(ctxCall.patient_id) # {})
            => /\ CtxReturnedText
               /\ Count(ctxResult.value.text, "Unknown Doctor") >= 1

----------------------------------------------------------------------------
(* Claims about health_check, checked under SpecHc *)

HcCalled == hcResult # NoCall

\* C14: health_check issues one GET request to <base>/api/health and returns
\* true exactly when the response status is 200: false for every other
\* status, and false, without raising, when the request fails in transport.
C14_HealthCheck ==
    /\ Len(hcLog) = hcCalls
    /\ \A i \in 1..Len(hcLog) :
          hcLog[i] = [method |-> "GET",
                      url |-> <<"http://localhost:11434", "/api/health">>]
    /\ HcCalled =>
          /\ hcResult.kind = "return"
          /\ hcResult.value \in {PyBool(TRUE), PyBool(FALSE)}
          /\ (hcResult.value = PyBool(TRUE))
                <=> (hcCall.transport = "ok" /\ hcCall.status = 200)

\* a second probe that failed in transport
C14_Witness ==
    /\ hcCalls = 2
    /\ hcCall.transport = "failed"
    /\ hcResult = Return(PyBool(FALSE))

----------------------------------------------------------------------------
(* Claims about the chat tab, checked under SpecChat *)

\* a script run was made, for a stored patient, and found a user message
\* pending
RanWithPending ==
    /\ chatRun.outcome # "none"
    /\ chatRun.patient_id \in PatientIds
    /\ ReplyGuard(chatRun.before, chatRun.pending)

\* the run appended, as the assistant's message, the string get_response
\* returned for the pending message, and cleared the flag
ReplyAppended ==
    /\ chatRun.outcome = "replied"
    /\ chatRun.reply.kind = "return"
    /\ gwCall.prompt = chatRun.before[Len(chatRun.before)].content
    /\ messages = Append(chatRun.before, Msg("assistant", chatRun.reply.value.text))
    /\ ~processing

IsUser(m) == m.role = "user"
UserMessages(msgs) == SelectSeq(msgs, IsUser)

C17_PendingGetsReply ==
    RanWithPending => ReplyAppended

\* C18: a prompt that arrives in a run while the processing flag is true is
\* not appended; the run leaves the user messages unchanged and generates
\* only the reply to the message that was pending.
C18_PromptWhileProcessing ==
    (RanWithPending /\ Truthy(chatRun.prompt)) =>
        /\ UserMessages(messages) = UserMessages(chatRun.before)
        /\ \A i \in 1..Len(messages) :
              i > Len(chatRun.before) => messages[i].role = "assistant"
        /\ Len(messages) = Len(chatRun.before) + 1
        /\ ReplyAppended

\* C19: the reply to a pending message is generated with the context of the
\* patient selected in the run that generates it, not of the patient selected
\* when the question was submitted; a run that only changes the selection
\* leaves messages and flag unchanged; so after a switch the history holds a
\* question and a reply that belong to different patients.
C19_ContextOfCurrentSelection ==
    /\ chatRun.outcome \in {"idle", "no patient"} =>
          (messages = chatRun.before /\ processing = chatRun.pending)
    /\ (RanWithPending /\ chatRun.patient_id # chatRun.asked_for) =>
          /\ CtxCalled
          /\ ctxCall.patient_id = chatRun.patient_id
          /\ ctxResult.kind = "return"
          /\ gwCall.context = ctxResult.value
          /\ Len(messages) = Len(chatRun.before) + 1
          /\ messages[Len(messages)].role = "assistant"

----------------------------------------------------------------------------
(* Claims about get_response, checked under SpecGw *)

GwCalled == gwResult.kind # "none"
GwReturnedText == gwResult.kind = "return" /\ gwResult.value.type = "str"
LastRequest == requestLog[Len(requestLog)]
Is2xx(status) == 200 <= status /\ status < 300

\* C2: get_response never raises: for every outcome of the HTTP request the
\* call returns a string to the caller.
C2_GetResponseTotal == GwCalled => GwReturnedText

\* C6: the sent prompt is "Context:\n{context}\n\nQuestion: {prompt}" whenever
\* a context is passed, the empty string included, and the raw prompt when the
\* context is None.
C6_PromptAssembly ==
    GwCalled =>
        LastRequest.json.prompt =
            IF gwCall.context # None
            THEN <<"Context:\n">> \o gwCall.context.text \o <<"\n\nQuestion: ">>
                     \o gwCall.prompt
            ELSE gwCall.prompt

\* C6 as amended: the sent prompt is "Context:\n{context}\n\nQuestion: {prompt}"
\* whenever a non-empty context is passed, and the raw prompt when the context
\* is None or the empty string.
C6_PromptAssembly_Amended ==
    GwCalled =>
        LastRequest.json.prompt =
            IF gwCall.context # None /\ gwCall.context.text # <<>>
            THEN <<"Context:\n">> \o gwCall.context.text \o <<"\n\nQuestion: ">>
                     \o gwCall.prompt
            ELSE gwCall.prompt

\* a call with the empty string as context, which sent the raw prompt
C6_Witness ==
    /\ GwCalled
    /\ gwCall.context = Str(<<>>)
    /\ LastRequest.json.prompt = gwCall.prompt

\* the failure description the error string embeds
C7_Description(http) ==
    IF http.transport = "failed" THEN <<"Connection refused">>
    ELSE <<ToString(http.status), " Error for url">>

C7_ErrorString(http) ==
    /\ GwReturnedText
    /\ Len(gwResult.value.text) > 0
    /\ Head(gwResult.value.text) = "Error: "
    /\ IsSuffix(C7_Description(http), gwResult.value.text)

\* C7: a transport failure or a response whose status is not 2xx (1xx and 3xx
\* as well as 4xx and 5xx) makes get_response return a string that begins
\* with "Error: " and embeds the failure description.
C7_FailureString ==
    (GwCalled /\ (gwCall.http.transport = "failed" \/ ~Is2xx(gwCall.http.status)))
        => C7_ErrorString(gwCall.http)

\* C7 as amended: a transport failure or a response with a 4xx or 5xx status
\* makes get_response return a string that begins with "Error: " and embeds
\* the failure description.
C7_FailureString_Amended ==
    (GwCalled /\ (gwCall.http.transport = "failed"
                    \/ (400 <= gwCall.http.status /\ gwCall.http.status < 600)))
        => C7_ErrorString(gwCall.http)

\* a call answered with a 404 whose body is a well-formed payload
C7_Witness ==
    /\ GwCalled
    /\ gwCall.http.transport = "ok"
    /\ gwCall.http.status = 404
    /\ gwCall.http.body.json = "object"
    /\ gwCall.http.body.has_response
    /\ Head(gwResult.value.text) = "Error: "

\* C8: a 2xx response whose body is not JSON makes get_response return
\* "Error: Invalid JSON response from Ollama API", the string of the
\* malformed-response handler, not the one of the connection-error handler.
C8_InvalidJsonString ==
    (GwCalled /\ gwCall.http.transport = "ok" /\ Is2xx(gwCall.http.status)
        /\ gwCall.http.body.json = "invalid")
        => gwResult = Return(Str(<<"Error: ", "Invalid JSON response from Ollama API">>))

\* C9: for a successful response whose body is a JSON payload get_response
\* returns the value of its response field, and when the field is absent the
\* fallback "No response received from model.", which is no error string.
C9_ResponseOrFallback ==
    (GwCalled /\ gwCall.http.transport = "ok" /\ Is2xx(gwCall.http.status)
        /\ gwCall.http.body.json = "object")
        => IF gwCall.http.body.has_response
           THEN gwResult = Return(gwCall.http.body.response)
           ELSE /\ gwResult = Return(Str(<<"No response received from model.">>))
                /\ Head(gwResult.value.text) # "Error: "

\* a successful call whose payload has no response field
C9_Witness ==
    /\ GwCalled
    /\ gwCall.http.transport = "ok"
    /\ gwCall.http.status = 200
    /\ gwCall.http.body.json = "object"
    /\ ~gwCall.http.body.has_response
    /\ gwResult.kind = "return"

\* C10: every call of get_response issues exactly one outbound request,
\* whatever its outcome, and the request carries the configured model,
\* stream = false and the options temperature 0.7, top_p 0.9, max_tokens 1024
\* whatever the arguments of the call.
C10_OneRequestPerCall ==
    /\ Len(requestLog) = gwCalls
    /\ \A i \in 1..Len(requestLog) :
          /\ requestLog[i].method = "POST"
          /\ requestLog[i].json.model = ConfiguredModel
          /\ requestLog[i].json.stream = FALSE
          /\ requestLog[i].json.options =
                [temperature |-> "0.7", top_p |-> "0.9", max_tokens |-> 1024]

\* two calls were made, the last one ending in a transport failure
C10_Witness ==
    /\ gwCalls = 2
    /\ gwCall.http.transport = "failed"
    /\ Len(requestLog) = 2
    /\ requestLog[1].json.prompt # requestLog[2].json.prompt

====
